---- MODULE Spec2Model ----
(***************************************************************************)
(* Model of class Gridarray of grid_math_dev/LB_colloid_dev.py: the        *)
(* per-axis distance transform of a porous-medium image.                   *)
(*                                                                         *)
(* Arrays are sequences; the module keeps numpy's 0-based indices in every *)
(* value it stores (crossings, lbound, rbound, i) and converts at the      *)
(* sequence access (cell p of a line is line[p + 1]).                      *)
(*                                                                         *)
(* A float cell is one of                                                  *)
(*   <<"num", n>>   the exact number n (0. pore, 1. solid, -1./1. signs)   *)
(*   <<"blur", 0>>  an interpolated image value strictly between 0 and 1   *)
(*   <<"res", k>>   k * gridres, a distance                                *)
(*   <<"nan", 0>>   np.nan                                                 *)
(* Float indices line[i] are truncated to integers, as the numpy releases  *)
(* this Python 2 file runs on do.                                          *)
(***************************************************************************)
EXTENDS Integers, Sequences, FiniteSets, TLC

VARIABLES
    gridsplit,  \* the gridsplit argument
    axis,       \* "x" / "y": which of _distance_gridx/_distance_gridy runs; "grid": __init__
    pc,         \* position in the running method
    line0,      \* the line as passed to _distance_grid{x,y} (history)
    corr,       \* the line after the boundary-correction block (history)
    line,       \* the distance line, mutated in place
    vline,      \* the direction line, mutated in place
    boundary,   \* the crossing indices, np.where(...)[0]
    i,          \* the loop variable of the pairing loop
    outcome,    \* "running", "returned", or the exception that ended the call
    img0,       \* the image as the caller passed it (history)
    arr,        \* the caller's image array, the object __init__ receives
    yarr,       \* self.yarr
    vimgx,      \* self._vimgx
    vimgy,      \* self._vimgy
    k           \* the loop variable `line` of _arrx / _arry

vars == <<gridsplit, axis, pc, line0, corr, line, vline, boundary, i, outcome,
          img0, arr, yarr, vimgx, vimgy, k>>

lineVars == <<line0, corr, line, vline, boundary, i>>
gridVars == <<img0, arr, yarr, vimgx, vimgy, k>>

(***************************************************************************)
(* Bounds                                                                  *)
(***************************************************************************)
MaxLen == 7      \* longest scanline handed to _distance_gridx/_distance_gridy
MaxSplit == 3    \* largest gridsplit
NRows == 3       \* image rows in the construction model
NCols == 2       \* image columns in the construction model

(***************************************************************************)
(* Float cells                                                             *)
(***************************************************************************)
Num(n) == <<"num", n>>
Res(n) == <<"res", n>>
Blur == <<"blur", 0>>
NaN == <<"nan", 0>>
Solid == Num(1)
Pore == Num(0)

IsRes(c) == c[1] = "res"
IsNaN(c) == c[1] = "nan"
IsDir(c) == c = Num(-1) \/ c = Num(1)

\* line < 1 and line > 1; a distance k*gridres is below 1 (gridres is
\* 1e-6/gridsplit, line 211)
LessThanOne(c) == c = Blur \/ IsRes(c) \/ (c[1] = "num" /\ c[2] < 1)
GreaterThanOne(c) == c[1] = "num" /\ c[2] > 1

\* python indexing: seq[p] with p >= 0
At(seq, p) == seq[p + 1]
IndexError(seq, p) == p >= Len(seq)

Reverse(s) == [j \in 1..Len(s) |-> s[Len(s) + 1 - j]]

\* line[lbound:rbound] = vals
SetSlice(s, lbound, rbound, vals) ==
    [j \in 1..Len(s) |-> IF lbound < j /\ j <= rbound THEN vals[j - lbound] ELSE s[j]]

\* np.arange(1, g + 1)*gridres
Arange1(g) == [j \in 1..g |-> Res(j)]
\* np.arange(rbound, lbound, -1)*gridres
ArangeDown(rbound, lbound) == [j \in 1..(rbound - lbound) |-> Res(rbound + 1 - j)]
\* np.ones(g)*s
Ones(g, s) == [j \in 1..g |-> Num(s)]

(***************************************************************************)
(* The boundary-correction block, lines 85-90 and 134-139                  *)
(***************************************************************************)
\* int(np.linspace(0, 1, gs)[j]): the j-th of gs evenly spaced samples of [0,1]
\* is j/(gs-1) (0. when gs = 1), used as an index and so truncated
LinspaceIndex(gs, j) == IF gs = 1 THEN 0 ELSE j \div (gs - 1)

\* the indices of rplc = np.linspace(0, 1, gridsplit)[gridsplit/2:]
Rplc(gs) == {LinspaceIndex(gs, j) : j \in (gs \div 2)..(gs - 1)}

CorrectLine(ln, gs) ==
    LET forced == [j \in 1..Len(ln) |-> IF (j - 1) \in Rplc(gs) THEN Solid ELSE ln[j]]
    IN  [j \in 1..Len(ln) |->
            IF LessThanOne(forced[j]) \/ GreaterThanOne(forced[j]) THEN Pore ELSE forced[j]]

\* np.abs(np.diff(line)) >= 1 at index p, on a line of 0./1. cells
Crossing(ln, p) ==
    LET d == At(ln, p + 1)[2] - At(ln, p)[2]
    IN  (IF d < 0 THEN -d ELSE d) >= 1

RECURSIVE WhereFrom(_, _)
WhereFrom(ln, p) ==
    IF p > Len(ln) - 2 THEN <<>>
    ELSE IF Crossing(ln, p) THEN <<p>> \o WhereFrom(ln, p + 1)
    ELSE WhereFrom(ln, p + 1)

\* boundary = np.where(np.abs(np.diff(line)) >= 1)[0]
Boundary(ln) == WhereFrom(ln, 0)

(***************************************************************************)
(* The profile of one run, shared by both passes (lines 100-120, 157-177)  *)
(***************************************************************************)
EvenDist(gap) ==
    LET g == gap \div 2
        left == Arange1(g)
        right == Reverse(left)
    IN  left \o right

OddDist(gap) ==
    LET g == gap \div 2
        left == Arange1(g)
        right == Reverse(left)
        adjust == Res(Len(left) + 1)
    IN  Append(left, adjust) \o right

RunDist(gap) == IF gap % 2 = 0 THEN EvenDist(gap) ELSE OddDist(gap)

\* x: left half -1, right half +1
XDirs(gap) ==
    LET g == gap \div 2
    IN  IF gap % 2 = 0 THEN Ones(g, -1) \o Ones(g, 1)
        ELSE Ones(g + 1, -1) \o Ones(g, 1)

\* y: left half +1, right half -1
YDirs(gap) ==
    LET g == gap \div 2
    IN  IF gap % 2 = 0 THEN Ones(g, 1) \o Ones(g, -1)
        ELSE Ones(g + 1, 1) \o Ones(g, -1)

(***************************************************************************)
(* _distance_gridx, lines 93-125                                           *)
(***************************************************************************)
\* rbound = boundary[i] + 1
XRbound(bd, ii) == At(bd, ii) + 1
\* lbound = boundary[i-1]
XLbound(bd, ii) == At(bd, ii - 1)

\* one iteration of `for i in range(1, len(boundary), 2)`, inside the try:
\* an IndexError from boundary[i] or boundary[i-1] goes to the except clause
XRun(ln, vl, bd, ii) ==
    IF IndexError(bd, ii) \/ IndexError(bd, ii - 1)
    THEN [line |-> ln, vline |-> vl, outcome |-> "SystemExit"]
    ELSE LET rbound == XRbound(bd, ii)
             lbound == XLbound(bd, ii)
             gap == rbound - lbound
         IN  [line |-> SetSlice(ln, lbound, rbound, RunDist(gap)),
              vline |-> SetSlice(vl, lbound, rbound, XDirs(gap)),
              outcome |-> "running"]

\* range(1, len(boundary), 2) still has the value ii
XLoopHas(bd, ii) == ii < Len(bd)

RECURSIVE XLoop(_, _, _, _)
XLoop(ln, vl, bd, ii) ==
    IF ~XLoopHas(bd, ii) THEN [line |-> ln, vline |-> vl, outcome |-> "returned"]
    ELSE LET r == XRun(ln, vl, bd, ii)
         IN  IF r.outcome = "SystemExit" THEN r
             ELSE XLoop(r.line, r.vline, bd, ii + 2)

distance_gridx(ln, vl, gs) ==
    LET c == CorrectLine(ln, gs)
    IN  XLoop(c, vl, Boundary(c), 1)

(***************************************************************************)
(* _distance_gridy, lines 141-189                                          *)
(***************************************************************************)
\* faulty variant: the guard written >= 0
HasCrossingsAlways(bd) == Len(bd) >= 0
\* if len(boundary) > 0
HasCrossings(bd) == Len(bd) > 0

\* faulty variant: the top run ended at the first crossing
TopRboundFirst(bd) == At(bd, 0) + 1
\* rbound = boundary[1] + 1
TopRbound(bd) == At(bd, 1) + 1

\* lines 145-150; boundary[1] is read outside any try
YTop(ln, vl, bd) ==
    IF IndexError(bd, 1)
    THEN [line |-> ln, vline |-> vl, outcome |-> "IndexError"]
    ELSE LET rbound == TopRbound(bd)
             lbound == 0
             top == ArangeDown(rbound, lbound)
             vtop == Ones(Len(top), -1)
         IN  [line |-> SetSlice(ln, lbound, rbound, top),
              vline |-> SetSlice(vl, lbound, rbound, vtop),
              outcome |-> "running"]

\* rbound = boundary[i] + 1
YRbound(bd, ii) == At(bd, ii) + 1
\* faulty variant: the x-pass's left bound, without the + 1
YLboundAsX(bd, ii) == At(bd, ii - 1)
\* lbound = boundary[i-1] + 1
YLbound(bd, ii) == At(bd, ii - 1) + 1

\* one iteration of `for i in range(3, len(boundary), 2)`
YRun(ln, vl, bd, ii) ==
    LET rbound == YRbound(bd, ii)
        lbound == YLbound(bd, ii)
        gap == rbound - lbound
    IN  [line |-> SetSlice(ln, lbound, rbound, RunDist(gap)),
         vline |-> SetSlice(vl, lbound, rbound, YDirs(gap)),
         outcome |-> "running"]

YLoopHas(bd, ii) == ii < Len(bd)

\* lines 179-186; boundary[-1] is the last crossing
YBottom(ln, vl, bd, ylen) ==
    LET rbound == ylen
        lbound == At(bd, Len(bd) - 1) + 1
        gap == rbound - lbound
    IN  [line |-> SetSlice(ln, lbound, rbound, Arange1(gap)),
         vline |-> SetSlice(vl, lbound, rbound, Ones(gap, 1)),
         outcome |-> "returned"]

RECURSIVE YLoop(_, _, _, _, _)
YLoop(ln, vl, bd, ii, ylen) ==
    IF ~YLoopHas(bd, ii) THEN YBottom(ln, vl, bd, ylen)
    ELSE LET r == YRun(ln, vl, bd, ii)
         IN  YLoop(r.line, r.vline, bd, ii + 2, ylen)

distance_gridy(ln, vl, ylen, gs) ==
    LET c == CorrectLine(ln, gs)
        bd == Boundary(c)
    IN  IF HasCrossings(bd)
        THEN LET t == YTop(c, vl, bd)
             IN  IF t.outcome = "IndexError" THEN t
                 ELSE YLoop(t.line, t.vline, bd, 3, ylen)
        ELSE [line |-> c, vline |-> vl, outcome |-> "returned"]

(***************************************************************************)
(* _create_vector_array, lines 50-59                                       *)
(***************************************************************************)
\* v[v == solid] = np.nan on one line of a copy of the image (solid = True)
MaskSolid(ln) == [j \in 1..Len(ln) |-> IF ln[j] = Solid THEN NaN ELSE ln[j]]

Transpose(a) == [c \in 1..Len(a[1]) |-> [r \in 1..Len(a) |-> a[r][c]]]

(***************************************************************************)
(* One call of _distance_gridx or _distance_gridy, statement by statement  *)
(***************************************************************************)
Cells == {Pore, Blur, Solid}

Lines == UNION {[1..n -> Cells] : n \in 2..MaxLen}

NoGrid == <<>>

InitLine ==
    /\ axis \in {"x", "y"}
    /\ gridsplit \in 1..MaxSplit
    /\ line0 \in Lines
    /\ line = line0
    /\ vline = MaskSolid(line0)
    /\ corr = <<>>
    /\ boundary = <<>>
    /\ i = 0
    /\ pc = "correct"
    /\ outcome = "running"
    /\ img0 = NoGrid /\ arr = NoGrid /\ yarr = NoGrid
    /\ vimgx = NoGrid /\ vimgy = NoGrid /\ k = 0

\* lines 85-90 / 134-139
Correct ==
    /\ axis \in {"x", "y"} /\ pc = "correct"
    /\ line' = CorrectLine(line, gridsplit)
    /\ corr' = line'
    /\ pc' = "where"
    /\ UNCHANGED <<gridsplit, axis, line0, vline, boundary, i, outcome>>
    /\ UNCHANGED gridVars

\* line 93 / 142
Where ==
    /\ axis \in {"x", "y"} /\ pc = "where"
    /\ boundary' = Boundary(line)
    /\ i' = IF axis = "x" THEN 1 ELSE 3
    /\ pc' = IF axis = "x" THEN "loop" ELSE "branch"
    /\ UNCHANGED <<gridsplit, axis, line0, corr, line, vline, outcome>>
    /\ UNCHANGED gridVars

\* lines 95-124, one iteration
XStep ==
    /\ axis = "x" /\ pc = "loop" /\ XLoopHas(boundary, i)
    /\ LET r == XRun(line, vline, boundary, i)
       IN  /\ line' = r.line
           /\ vline' = r.vline
           /\ outcome' = r.outcome
           /\ pc' = IF r.outcome = "SystemExit" THEN "done" ELSE "loop"
    /\ i' = i + 2
    /\ UNCHANGED <<gridsplit, axis, line0, corr, boundary>>
    /\ UNCHANGED gridVars

\* line 125
XReturn ==
    /\ axis = "x" /\ pc = "loop" /\ ~XLoopHas(boundary, i)
    /\ outcome' = "returned"
    /\ pc' = "done"
    /\ UNCHANGED <<gridsplit, axis, line0, corr, line, vline, boundary, i>>
    /\ UNCHANGED gridVars

\* lines 144-150
YTopStep ==
    /\ axis = "y" /\ pc = "branch" /\ HasCrossings(boundary)
    /\ LET r == YTop(line, vline, boundary)
       IN  /\ line' = r.line
           /\ vline' = r.vline
           /\ outcome' = r.outcome
           /\ pc' = IF r.outcome = "IndexError" THEN "done" ELSE "loop"
    /\ UNCHANGED <<gridsplit, axis, line0, corr, boundary, i>>
    /\ UNCHANGED gridVars

\* lines 187-189
YSkip ==
    /\ axis = "y" /\ pc = "branch" /\ ~HasCrossings(boundary)
    /\ outcome' = "returned"
    /\ pc' = "done"
    /\ UNCHANGED <<gridsplit, axis, line0, corr, line, vline, boundary, i>>
    /\ UNCHANGED gridVars

\* lines 153-177, one iteration
YStep ==
    /\ axis = "y" /\ pc = "loop" /\ YLoopHas(boundary, i)
    /\ LET r == YRun(line, vline, boundary, i)
       IN  /\ line' = r.line
           /\ vline' = r.vline
    /\ i' = i + 2
    /\ UNCHANGED <<gridsplit, axis, pc, line0, corr, boundary, outcome>>
    /\ UNCHANGED gridVars

\* lines 179-189; ylen is len(yarr[0]), the length of the column
YBottomStep ==
    /\ axis = "y" /\ pc = "loop" /\ ~YLoopHas(boundary, i)
    /\ LET r == YBottom(line, vline, boundary, Len(line))
       IN  /\ line' = r.line
           /\ vline' = r.vline
           /\ outcome' = r.outcome
    /\ pc' = "done"
    /\ UNCHANGED <<gridsplit, axis, line0, corr, boundary, i>>
    /\ UNCHANGED gridVars

NextLine ==
    \/ Correct
    \/ Where
    \/ XStep
    \/ XReturn
    \/ YTopStep
    \/ YSkip
    \/ YStep
    \/ YBottomStep

SpecLine == InitLine /\ [][NextLine]_vars

(***************************************************************************)
(* Gridarray.__init__, lines 45-48, with _arrx and _arry row by row        *)
(***************************************************************************)
Images == [1..NRows -> [1..NCols -> {Pore, Solid}]]

NoLine == <<>>

Init ==
    /\ axis = "grid"
    /\ gridsplit \in 1..MaxSplit
    /\ arr \in Images
    /\ img0 = arr
    /\ yarr = NoGrid /\ vimgx = NoGrid /\ vimgy = NoGrid
    /\ k = 0
    /\ pc = "init"
    /\ outcome = "running"
    /\ line0 = NoLine /\ corr = NoLine /\ line = NoLine /\ vline = NoLine
    /\ boundary = <<>> /\ i = 0

\* line 45: self.yarr = np.copy(arr.T)
CopyYarr ==
    /\ axis = "grid" /\ pc = "init"
    /\ yarr' = Transpose(arr)
    /\ pc' = "vector"
    /\ UNCHANGED <<gridsplit, axis, outcome, img0, arr, vimgx, vimgy, k>>
    /\ UNCHANGED lineVars

\* line 46 and lines 55-59
CreateVectorArray ==
    /\ axis = "grid" /\ pc = "vector"
    /\ vimgx' = [r \in 1..Len(arr) |-> MaskSolid(arr[r])]
    /\ vimgy' = [c \in 1..Len(Transpose(arr)) |-> MaskSolid(Transpose(arr)[c])]
    /\ k' = 0
    /\ pc' = "arrx"
    /\ UNCHANGED <<gridsplit, axis, outcome, img0, arr, yarr>>
    /\ UNCHANGED lineVars

\* line 66: arr[line] and vector_x[line] are views, written in place
ArrxStep ==
    /\ axis = "grid" /\ pc = "arrx" /\ k < Len(arr)
    /\ LET r == distance_gridx(At(arr, k), At(vimgx, k), gridsplit)
       IN  /\ arr' = [arr EXCEPT ![k + 1] = r.line]
           /\ vimgx' = [vimgx EXCEPT ![k + 1] = r.vline]
           /\ outcome' = IF r.outcome = "SystemExit" THEN "SystemExit" ELSE outcome
           /\ pc' = IF r.outcome = "SystemExit" THEN "exit" ELSE pc
    /\ k' = k + 1
    /\ UNCHANGED <<gridsplit, axis, img0, yarr, vimgy>>
    /\ UNCHANGED lineVars

\* line 67, then line 48 enters _arry
ArrxReturn ==
    /\ axis = "grid" /\ pc = "arrx" /\ k = Len(arr)
    /\ k' = 0
    /\ pc' = "arry"
    /\ UNCHANGED <<gridsplit, axis, outcome, img0, arr, yarr, vimgx, vimgy>>
    /\ UNCHANGED lineVars

\* faulty variant: self.yarr = arr.T, a view of the image instead of a copy
YarrLineOfView(ya, a, n) == At(Transpose(a), n)
\* the line _arry hands to _distance_gridy: yarr[line], a row of the copy
\* made at line 45 (a is the image array as it is now)
YarrLine(ya, a, n) == At(ya, n)

\* lines 74-75
ArryStep ==
    /\ axis = "grid" /\ pc = "arry" /\ k < Len(yarr)
    /\ LET ylen == Len(At(yarr, 0))
           r == distance_gridy(YarrLine(yarr, arr, k), At(vimgy, k), ylen, gridsplit)
       IN  /\ yarr' = [yarr EXCEPT ![k + 1] = r.line]
           /\ vimgy' = [vimgy EXCEPT ![k + 1] = r.vline]
           /\ outcome' = IF r.outcome = "IndexError" THEN "IndexError" ELSE outcome
           /\ pc' = IF r.outcome = "IndexError" THEN "raised" ELSE pc
    /\ k' = k + 1
    /\ UNCHANGED <<gridsplit, axis, img0, arr, vimgx>>
    /\ UNCHANGED lineVars

\* line 76, then __init__ ends
ArryReturn ==
    /\ axis = "grid" /\ pc = "arry" /\ k = Len(yarr)
    /\ outcome' = "returned"
    /\ pc' = "done"
    /\ UNCHANGED <<gridsplit, axis, img0, arr, yarr, vimgx, vimgy, k>>
    /\ UNCHANGED lineVars

\* the four attributes of the constructed object
gridx == arr                    \* _arrx returns arr itself
vector_x == vimgx
gridy == Transpose(yarr)        \* yarr.T
vector_y == Transpose(vimgy)    \* vector_y.T

Next ==
    \/ CopyYarr
    \/ CreateVectorArray
    \/ ArrxStep
    \/ ArrxReturn
    \/ ArryStep
    \/ ArryReturn

Spec == Init /\ [][Next]_vars

(***************************************************************************)
(* Properties                                                              *)
(***************************************************************************)
\* the profile the specification gives a run of L cells, cell q = 1..L:
\* 1..ceil(L/2) ascending, then floor(L/2)..1 descending
ProfileDist(L, q) == IF q <= (L + 1) \div 2 THEN Res(q) ELSE Res(L + 1 - q)
ProfileXDir(L, q) == IF q <= (L + 1) \div 2 THEN Num(-1) ELSE Num(1)
ProfileYDir(L, q) == IF q <= (L + 1) \div 2 THEN Num(1) ELSE Num(-1)

\* the odd loop indices 1, 3, ... (x) that pair boundary[ii-1] with boundary[ii]
ConsumedX == {ii \in 1..(Len(boundary) - 1) : ii % 2 = 1}
\* the loop indices 3, 5, ... (y)
ConsumedY == {ii \in 3..(Len(boundary) - 1) : ii % 2 = 1}

\* the pair (boundary[ii-1], boundary[ii]) delimits pore cells with a solid
\* cell on each side, in the corrected line
Enclosed(ii) ==
    LET lo == At(boundary, ii - 1)
        hi == At(boundary, ii)
    IN  /\ At(corr, lo) = Solid
        /\ \A p \in (lo + 1)..hi : At(corr, p) = Pore
        /\ hi + 1 < Len(corr)
        /\ At(corr, hi + 1) = Solid

XDone == axis = "x" /\ pc = "done"
YDone == axis = "y" /\ pc = "done"

\* C1: after the x-pass, every pore run of length L enclosed by solid and
\* delimited by a consumed pair holds the profile 1..ceil(L/2), floor(L/2)..1
\* with directions -1 then +1 on exactly its L cells, and the solid cell on
\* its left holds no distance and no direction.
C1_XRunWritesExactlyThePoreCells ==
    XDone =>
        \A ii \in ConsumedX :
            Enclosed(ii) =>
                LET lo == At(boundary, ii - 1)
                    hi == At(boundary, ii)
                    L == hi - lo
                IN  /\ \A q \in 1..L :
                            /\ At(line, lo + q) = ProfileDist(L, q)
                            /\ At(vline, lo + q) = ProfileXDir(L, q)
                    /\ ~IsRes(At(line, lo))
                    /\ ~IsDir(At(vline, lo))

\* C3: the x-pass ends on the percolation-failure path exactly when the row's
\* crossing list has odd cardinality.
C3_OddCrossingsAbort ==
    XDone => ((Len(boundary) % 2 = 1) <=> (outcome = "SystemExit"))

\* C4: a column with exactly one crossing ends in InsufficientCrossingsError,
\* with no cell given a distance or a direction.
C4_OneCrossingTypedError ==
    (YDone /\ Len(boundary) = 1) =>
        /\ outcome = "InsufficientCrossingsError"
        /\ \A p \in 1..Len(line) : ~IsRes(line[p]) /\ ~IsDir(vline[p])

\* C8: in the x-pass every consumed pair (boundary[2k], boundary[2k+1])
\* delimits one pore run enclosed by solid on both sides, for every gridsplit.
C8_PairsEncloseAPoreRun ==
    (axis = "x" /\ pc \in {"loop", "done"}) =>
        \A ii \in ConsumedX : Enclosed(ii)

C7_NoCrossingsUntouched ==
    YDone =>
        /\ Len(boundary) = 0 =>
                /\ outcome = "returned"
                /\ line = corr
                /\ vline = MaskSolid(line0)
                /\ \A p \in 1..Len(line) : ~IsRes(line[p]) /\ ~IsDir(vline[p])
        /\ Len(boundary) >= 2 =>
                \E p \in 1..Len(line) : IsRes(line[p]) /\ IsDir(vline[p])

\* C7 witness: a column holding pore and blurred cells ended the y-pass with
\* an empty crossing list.
C7_Witness ==
    /\ YDone /\ boundary = <<>> /\ outcome = "returned"
    /\ \E p \in 1..Len(line0) : line0[p] = Blur
    /\ \E p \in 1..Len(line0) : line0[p] = Pore

\* C9, the result: once the internal loop has passed the pair
\* (boundary[ii-1], boundary[ii]), the L = boundary[ii]-boundary[ii-1] cells
\* boundary[ii-1]+1 .. boundary[ii] hold 1..ceil(L/2), floor(L/2)..1 with
\* direction +1 on the first ceil(L/2) cells and -1 on the rest.
C9_RunsHoldProfile ==
    (axis = "y" /\ pc \in {"loop", "done"} /\ Len(boundary) >= 4) =>
        \A ii \in ConsumedY :
            (ii < i) =>
                LET lo == At(boundary, ii - 1)
                    L == At(boundary, ii) - lo
                IN  \A q \in 1..L :
                        /\ At(line, lo + q) = ProfileDist(L, q)
                        /\ At(vline, lo + q) = ProfileYDir(L, q)

\* C9, the step: one iteration of the internal loop writes the cells of its
\* pair and no others.
C9_StepWritesOnlyItsRun ==
    (axis = "y" /\ pc = "loop" /\ i' = i + 2) =>
        LET lo == At(boundary, i - 1)
            hi == At(boundary, i)
        IN  \A p \in 0..(Len(line) - 1) :
                IF lo < p /\ p <= hi
                THEN IsRes(At(line', p)) /\ IsDir(At(vline', p))
                ELSE At(line', p) = At(line, p) /\ At(vline', p) = At(vline, p)

\* C9: every pair (boundary[i-1], boundary[i]), i = 3, 5, ..., of the y-pass
\* gets the even/odd split profile with signs +1 then -1 on exactly the cells
\* boundary[i-1]+1 .. boundary[i], and the loop ends only after all of them.
C9_InternalRuns ==
    /\ []C9_RunsHoldProfile
    /\ [](YDone /\ outcome = "returned" /\ Len(boundary) >= 4 => i >= Len(boundary))
    /\ [][C9_StepWritesOnlyItsRun]_vars

\* C9 witness: a column with at least four crossings whose first internal run
\* has three cells (odd split) and is written 1r, 2r, 1r with +1, +1, -1.
C9_Witness ==
    /\ YDone /\ outcome = "returned" /\ Len(boundary) >= 4
    /\ At(boundary, 3) - At(boundary, 2) = 3
    /\ At(line, At(boundary, 2) + 2) = Res(2)
    /\ At(vline, At(boundary, 2) + 2) = Num(1)
    /\ At(vline, At(boundary, 2) + 3) = Num(-1)

GridDone == axis = "grid" /\ pc = "done"

\* a cell holds no value: np.nan
Undefined(c) == IsNaN(c)
\* a distance cell holds no distance (np.nan or the raw image value)
NoDistance(c) == ~IsRes(c)

\* two grids have the same shape
SameShape(g, v) ==
    /\ Len(g) = Len(v)
    /\ \A r \in 1..Len(g) : Len(g[r]) = Len(v[r])

\* g is np.nan at exactly the cells where v is
SameNaNMask(g, v) ==
    \A r \in 1..Len(g) : \A c \in 1..Len(g[r]) : Undefined(g[r][c]) <=> Undefined(v[r][c])

\* g holds no distance at exactly the cells where v is np.nan
SameDistanceMask(g, v) ==
    \A r \in 1..Len(g) : \A c \in 1..Len(g[r]) : NoDistance(g[r][c]) <=> Undefined(v[r][c])

\* C5: after construction the distance grid and the vector grid of each axis
\* have the same shape and the same undefined-mask (whether an undefined
\* distance is read as np.nan or as a cell left without a distance).
C5_SameUndefinedMask ==
    GridDone =>
        /\ SameShape(gridx, vector_x) /\ SameShape(gridy, vector_y)
        /\ \/ SameNaNMask(gridx, vector_x) /\ SameNaNMask(gridy, vector_y)
           \/ SameDistanceMask(gridx, vector_x) /\ SameDistanceMask(gridy, vector_y)

\* C6: after construction the caller's image array holds the values it held
\* before the call.
C6_ImageUnchanged ==
    GridDone => arr = img0

\* column c (0-based) of the image the caller passed
Column(c) == At(Transpose(img0), c)

\* C10: the x-pass result of row r is _distance_gridx of row r of the
\* original image alone, rows not yet processed are still the original rows,
\* and the y-pass result of column c is _distance_gridy of column c of the
\* original image alone, whatever the x-pass wrote before it.
C10_ScanlinesIndependent ==
    /\ (axis = "grid" /\ pc \in {"arrx", "exit"}) =>
            \A r \in 0..(Len(arr) - 1) :
                IF r < k
                THEN LET x == distance_gridx(At(img0, r), MaskSolid(At(img0, r)), gridsplit)
                     IN  At(arr, r) = x.line /\ At(vimgx, r) = x.vline
                ELSE At(arr, r) = At(img0, r) /\ At(vimgx, r) = MaskSolid(At(img0, r))
    /\ (axis = "grid" /\ pc \in {"arry", "raised", "done"}) =>
            /\ \A r \in 0..(Len(arr) - 1) :
                    LET x == distance_gridx(At(img0, r), MaskSolid(At(img0, r)), gridsplit)
                    IN  At(gridx, r) = x.line /\ At(vector_x, r) = x.vline
            /\ \A c \in 0..(Len(yarr) - 1) :
                    IF c < k
                    THEN LET y == distance_gridy(Column(c), MaskSolid(Column(c)),
                                                 Len(img0), gridsplit)
                         IN  /\ At(yarr, c) = y.line /\ At(vimgy, c) = y.vline
                             /\ \A r \in 0..(Len(img0) - 1) :
                                    /\ At(At(gridy, r), c) = At(y.line, r)
                                    /\ At(At(vector_y, r), c) = At(y.vline, r)
                    ELSE At(yarr, c) = Column(c) /\ At(vimgy, c) = MaskSolid(Column(c))

\* C10 witness: a construction ended in which the x-pass changed the image
\* array in place and the y-pass wrote distances.
C10_Witness ==
    /\ GridDone
    /\ arr # img0
    /\ \E r \in 1..Len(gridy) : \E c \in 1..Len(gridy[r]) : IsRes(gridy[r][c])

====
